---------------------------- MODULE Spec2Model ----------------------------
(***************************************************************************)
(* The tool server of mcp-in-sandbox: the tool registrations handed to     *)
(* createMcpHandler (four snapshots of the route file), the handlers'      *)
(* return paths, and the request dispatch around them.                     *)
(*                                                                         *)
(* Numbers are fixed-point: a JSON number v is held as the integer 100*v   *)
(* (its hundredths), so 6.5 is 650 and an integer has hundredths % 100 = 0.*)
(* JSON strings are sequences of one-character strings, so that length and *)
(* single characters are available; Join renders them as text.             *)
(***************************************************************************)
EXTENDS Integers, Sequences, FiniteSets, TLC

\* ------------------------------------------------------------------ bounds

\* Requests one behaviour receives (requests may be in flight together).
MaxRequests == 2

\* The clock runs from 0 to MaxClock.
MaxClock == 1

\* -------------------------------------------------------------------- state

VARIABLES
    snapshot,   \* which snapshot of the route file this server runs
    quota,      \* how many requests this behaviour receives
    menu,       \* which requests are sent: "smoke", "arguments" or "pairs"
    phase,      \* "startup", "serving", or "failed" (registration threw)
    regIdx,     \* server.tool calls made so far
    registry,   \* the registered descriptors, in registration order
    regLog,     \* every descriptor handed to register, in order
    stage,      \* per request slot: its position in the dispatch
    req,        \* per request slot: the request
    out,        \* per request slot: what the stage's work produced
    resp,       \* per request slot: the response envelope sent
    calls,      \* per request slot: the handler invocations made for it, in order
    answer,     \* per request slot: the provider's answer to its fetch
    raised,     \* per request slot: a failure was raised inside the handler
    now,        \* the clock
    fetches,    \* per request slot: the provider requests issued for it
    path,       \* per request slot: the dispatch stages it has entered, in order
    client      \* the smoke-test client: its script, position and exit code

vars == << snapshot, quota, menu, phase, regIdx, registry, regLog, stage, req,
           out, resp, calls, answer, raised, now, fetches, path, client >>

\* ------------------------------------------------------------ JSON values

Str(cs) == [k |-> "string", s |-> cs, n |-> 0]
Num(h) == [k |-> "number", s |-> <<>>, n |-> h]
Bool(b) == [k |-> "boolean", s |-> <<>>, n |-> IF b THEN 1 ELSE 0]
Absent == [k |-> "absent", s |-> <<>>, n |-> 0]

RECURSIVE Join(_)
Join(cs) == IF cs = <<>> THEN "" ELSE Head(cs) \o Join(Tail(cs))

\* ------------------------------------------------- the registration callback

Snapshots == {"part_003", "route", "part_002", "part_004"}

\* A declared field: z.string(), z.string().length(n), z.number().positive(),
\* z.number().min(m), z.number().int().positive().
Field(name, kind, int, positive, hasMin, min, hasLen, len) ==
    [name |-> name, kind |-> kind, int |-> int, positive |-> positive,
     hasMin |-> hasMin, min |-> min, hasLen |-> hasLen, len |-> len]

StringField(name) == Field(name, "string", FALSE, FALSE, FALSE, 0, FALSE, 0)

EchoSchema == << StringField("message") >>

Sha1Schema == << StringField("input") >>

Sha256Schema == << StringField("input") >>

PopulationSchema == << StringField("country") >>

\* Variant: loanAmount declared z.number() without .positive().
MortgageSchemaLax ==
    << Field("loanAmount", "number", FALSE, FALSE, FALSE, 0, FALSE, 0),
       Field("annualInterestRate", "number", FALSE, FALSE, TRUE, 0, FALSE, 0),
       Field("loanTermYears", "number", TRUE, TRUE, FALSE, 0, FALSE, 0) >>

\* Variant: loanTermYears declared z.number().positive() without .int().
MortgageSchemaFractionalTerm ==
    << Field("loanAmount", "number", FALSE, TRUE, FALSE, 0, FALSE, 0),
       Field("annualInterestRate", "number", FALSE, FALSE, TRUE, 0, FALSE, 0),
       Field("loanTermYears", "number", FALSE, TRUE, FALSE, 0, FALSE, 0) >>

MortgageSchema ==
    << Field("loanAmount", "number", FALSE, TRUE, FALSE, 0, FALSE, 0),
       Field("annualInterestRate", "number", FALSE, FALSE, TRUE, 0, FALSE, 0),
       Field("loanTermYears", "number", TRUE, TRUE, FALSE, 0, FALSE, 0) >>

\* Variant: letter declared z.string() without .length(1).
LetterCountSchemaAnyLength == << StringField("text"), StringField("letter") >>

LetterCountSchema ==
    << StringField("text"),
       Field("letter", "string", FALSE, FALSE, FALSE, 0, TRUE, 1) >>

EchoTool ==
    [name |-> "echo", description |-> "Echo a message", schema |-> EchoSchema]

Sha1Tool ==
    [name |-> "calculate_sha1",
     description |-> "Calculate the SHA1 hash of a given string input",
     schema |-> Sha1Schema]

Sha256Tool ==
    [name |-> "calculate_sha256",
     description |-> "Calculate the SHA256 hash of a given string input",
     schema |-> Sha256Schema]

PopulationTool ==
    [name |-> "get_population_data",
     description |-> "Get current population data for a country from REST Countries API",
     schema |-> PopulationSchema]

MortgageTool ==
    [name |-> "calculate_mortgage_payment",
     description |-> "Calculate monthly mortgage payment using the standard mortgage payment formula",
     schema |-> MortgageSchema]

LetterCountTool ==
    [name |-> "count_letter_occurrences",
     description |-> "Count the exact number of occurrences of a specific letter in a given string with case-insensitive matching, returning both the count and positions for verification",
     schema |-> LetterCountSchema]

\* Variant: the SHA256 tool is registered under the SHA1 tool's name.
RegistrationsDuplicateName(s) ==
    << EchoTool, Sha1Tool,
       [name |-> "calculate_sha1",
        description |-> "Calculate the SHA256 hash of a given string input",
        schema |-> Sha256Schema],
       PopulationTool >>

\* Variant: the tool the capabilities advertise as count_character is
\* registered too.
RegistrationsWithCountCharacter(s) ==
    << EchoTool,
       [name |-> "count_character",
        description |-> "Count occurrences of a character in a string",
        schema |-> << StringField("text"), StringField("character") >>] >>

\* The server.tool calls of the registration callback, in order.
Registrations(s) ==
    CASE s = "part_003" -> << EchoTool >>
      [] s = "route" -> << EchoTool, Sha1Tool, PopulationTool >>
      [] s = "part_002" -> << EchoTool, Sha1Tool, PopulationTool, MortgageTool >>
      [] s = "part_004" -> << EchoTool, Sha1Tool, Sha256Tool, PopulationTool,
                              MortgageTool, LetterCountTool >>

Cap(name, description) == [name |-> name, description |-> description]

CapEcho == Cap("echo", "Echo a message")

CapCountCharacter ==
    Cap("count_character", "Count occurrences of a character in a string")

CapSha1 ==
    Cap("calculate_sha1", "Calculate the SHA1 hash of a given string input. Useful for creating checksums, verifying data integrity, or generating unique identifiers. Takes any string input and returns the SHA1 hash in hexadecimal format.")

CapSha256 ==
    Cap("calculate_sha256", "Calculate the SHA256 hash of a given string input. More secure than SHA1, useful for creating checksums, verifying data integrity, password hashing, or generating unique identifiers. Takes any string input including special characters, numbers, and Unicode characters, and returns the SHA256 hash in hexadecimal format.")

CapPopulation ==
    Cap("get_population_data", "Get current population data for any country from REST Countries API. Takes a country name (full name, common name, or ISO code) and returns comprehensive population and country information including population count, official name, capital, region, and subregion. Useful for demographic research, country comparisons, and accessing up-to-date population statistics.")

CapMortgage ==
    Cap("calculate_mortgage_payment", "Calculate monthly mortgage payment using the standard mortgage payment formula. Takes loan amount, annual interest rate (as percentage), and loan term in years. Returns monthly payment amount, total amount paid, and total interest paid. Uses the formula M = P * [r(1 + r)^n] / [(1 + r)^n - 1]. Useful for mortgage planning, loan comparisons, and financial planning.")

CapLetterCount ==
    Cap("count_letter_occurrences", "Count the exact number of occurrences of a specific letter in a given string with case-insensitive matching, returning both the count and positions for verification. Useful for text analysis, pattern detection, and character frequency analysis.")

\* The capabilities.tools object of the server options, in order.
Capabilities(s) ==
    CASE s = "part_003" -> << CapEcho, CapCountCharacter >>
      [] s = "route" -> << CapEcho, CapCountCharacter, CapSha1, CapPopulation >>
      [] s = "part_002" -> << CapEcho, CapCountCharacter, CapSha1, CapPopulation,
                              CapMortgage >>
      [] s = "part_004" -> << CapEcho, CapLetterCount, CapSha1, CapSha256,
                              CapPopulation, CapMortgage >>


\* ------------------------------------------------------------ handler results

\* What a handler call ends with: a returned result, or a thrown error that
\* left the handler.
Return(v) == [threw |-> FALSE, value |-> v, message |-> ""]
Throw(m) == [threw |-> TRUE, value |-> [content |-> <<>>], message |-> m]

TextBlock(t) == [type |-> "text", text |-> t]

\* ------------------------------------------------------------ number rendering

Pad2(n) == IF n < 10 THEN "0" \o ToString(n) ELSE ToString(n)

Pad3(n) == IF n < 10 THEN "00" \o ToString(n)
           ELSE IF n < 100 THEN "0" \o ToString(n) ELSE ToString(n)

\* Number.prototype.toLocaleString (en-US) of a non-negative integer.
RECURSIVE Grouped(_)
Grouped(n) == IF n < 1000 THEN ToString(n)
              ELSE Grouped(n \div 1000) \o "," \o Pad3(n % 1000)

\* Intl.NumberFormat en-US currency USD of a non-negative amount (hundredths).
formatCurrency(h) == "$" \o Grouped(h \div 100) \o "." \o Pad2(h % 100)

\* Template rendering of a non-negative number (hundredths): 650 is "6.5".
NumberText(h) ==
    IF h % 100 = 0 THEN ToString(h \div 100)
    ELSE IF h % 10 = 0 THEN ToString(h \div 100) \o "." \o ToString((h % 100) \div 10)
    ELSE ToString(h \div 100) \o "." \o Pad2(h % 100)

\* ------------------------------------------------------------------- echo

EchoHandler(args) ==
    Return([content |-> << TextBlock("Tool echo: " \o Join(args.message.s)) >>])

\* ------------------------------------------------------------------ hashes

\* createHash('sha1').update(input).digest('hex'): the digest of the inputs
\* the model uses; any other input has a digest that is a function of it.
Sha1Hex(input) ==
    IF input = "hello world" THEN "2aae6c35c94fcfb415dbe95f408b9ce91ee846ed"
    ELSE IF input = "" THEN "da39a3ee5e6b4b0d3255bfef95601890afd80709"
    ELSE "sha1<" \o input \o ">"

Sha256Hex(input) ==
    IF input = "hello world"
    THEN "b94d27b9934d3e08a52e52d7da7dabfac484efe37a5380ee9088f7ace2efcde9"
    ELSE IF input = ""
    THEN "e3b0c44298fc1c149afbf4c8996fb92427ae41e4649b934ca495991b7852b855"
    ELSE "sha256<" \o input \o ">"

\* Variant: the result carries the time of the call.
Sha1HandlerStamped(args) ==
    LET input == Join(args.input.s)
        sha1Hash == Sha1Hex(input)
    IN Return([content |-> << TextBlock("SHA1 hash of \"" \o input \o "\": " \o sha1Hash) >>,
               hash |-> sha1Hash,
               input |-> input,
               algorithm |-> "sha1",
               timestamp |-> now])

Sha1Handler(args) ==
    LET input == Join(args.input.s)
        sha1Hash == Sha1Hex(input)
    IN Return([content |-> << TextBlock("SHA1 hash of \"" \o input \o "\": " \o sha1Hash) >>,
               hash |-> sha1Hash,
               input |-> input,
               algorithm |-> "sha1"])

Sha256Handler(args) ==
    LET input == Join(args.input.s)
        sha256Hash == Sha256Hex(input)
    IN Return([content |-> << TextBlock("SHA256 hash of \"" \o input \o "\": " \o sha256Hash) >>,
               hash |-> sha256Hash,
               input |-> input,
               algorithm |-> "sha256",
               encoding |-> "utf8"])

\* -------------------------------------------------------- population lookup

\* What the country-data provider does with one fetch: the fetch rejects
\* (network failure), or an HTTP response arrives whose body parses as JSON
\* to some value, or does not parse.
Reject(m) == [kind |-> "reject", message |-> m]

Http(status, statusText, body) ==
    [kind |-> "http", status |-> status, statusText |-> statusText,
     ok |-> (status >= 200 /\ status <= 299), body |-> body]

NoJson == [parses |-> FALSE]
Json(data) == [parses |-> TRUE, data |-> data]

JUndefined == [t |-> "undefined"]
JNull == [t |-> "null"]
JArray(items) == [t |-> "array", items |-> items]
JObject(o) == [t |-> "object", o |-> o]
\* A number, string or boolean: 0, "" and false are falsy, the rest truthy.
JScalar(truthy) == [t |-> "scalar", truthy |-> truthy]

Germany ==
    [population |-> 83240525,
     name |-> [common |-> "Germany", official |-> "Federal Republic of Germany"],
     capital |-> << "Berlin" >>,
     region |-> "Europe",
     subregion |-> "Western Europe"]

NoPopulation == [name |-> [common |-> "Atlantis"], region |-> ""]

\* An object whose population is null: the keys listed in nulls hold null.
NullPopulation == [name |-> [common |-> "Atlantis"], nulls |-> {"population"}]

\* An object with a population and nothing else.
OnlyPopulation == [population |-> 0]

ProviderAnswers ==
    { Reject("fetch failed"),
      Http(404, "Not Found", Json(JObject([status |-> 404]))),
      Http(500, "Internal Server Error", NoJson),
      Http(200, "OK", NoJson),
      Http(200, "OK", Json(JArray(<< >>))),
      Http(200, "OK", Json(JNull)),
      Http(200, "OK", Json(JArray(<< JObject(NoPopulation) >>))),
      Http(200, "OK", Json(JArray(<< JObject(Germany) >>))) }

\* More 2xx answers: a 204 without a body, an object that is not in an array,
\* scalars, a null first element, a null population, a population of 0 with
\* no other field, and arrays whose first element decides.
WideAnswers ==
    { Http(204, "No Content", NoJson),
      Http(200, "OK", Json(JObject(Germany))),
      Http(200, "OK", Json(JObject(NoPopulation))),
      Http(200, "OK", Json(JScalar(FALSE))),
      Http(200, "OK", Json(JScalar(TRUE))),
      Http(200, "OK", Json(JArray(<< JNull, JObject(Germany) >>))),
      Http(200, "OK", Json(JArray(<< JScalar(TRUE) >>))),
      Http(200, "OK", Json(JArray(<< JObject(NullPopulation) >>))),
      Http(201, "Created", Json(JArray(<< JObject(OnlyPopulation) >>))),
      Http(200, "OK", Json(JArray(<< JObject(Germany), JObject(NoPopulation) >>))),
      Http(200, "OK", Json(JArray(<< JObject(NoPopulation), JObject(Germany) >>))) }

\* A || B on strings: the empty string and a missing key are falsy.
Get(o, key, default) ==
    IF key \in DOMAIN o /\ o[key] # "" THEN o[key] ELSE default

\* Variant: the 404 branch returns its fields without a content array.
PopulationNotFoundNoContent(country) ==
    [success |-> FALSE, error |-> "Country not found"]

PopulationNotFound(country) ==
    [content |-> << TextBlock("Country \"" \o country \o "\" not found. Please check the spelling or try alternative names (e.g., 'USA' instead of 'United States', 'UK' instead of 'United Kingdom').") >>,
     success |-> FALSE,
     error |-> "Country not found"]

\* Variant: the empty-data branch reports "Country not found".
PopulationNoDataAsNotFound(country) ==
    [content |-> << TextBlock("No data found for country \"" \o country \o "\". Please verify the country name and try again.") >>,
     success |-> FALSE,
     error |-> "Country not found"]

PopulationNoData(country) ==
    [content |-> << TextBlock("No data found for country \"" \o country \o "\". Please verify the country name and try again.") >>,
     success |-> FALSE,
     error |-> "No data found"]

PopulationFound(country, cd, t) ==
    LET nm == IF "name" \in DOMAIN cd THEN cd.name ELSE [x \in {} |-> ""]
        officialName == Get(nm, "official", Get(nm, "common", country))
        commonName == Get(nm, "common", officialName)
        capital == IF "capital" \in DOMAIN cd
                   THEN (IF cd.capital = << >> THEN "undefined" ELSE cd.capital[1])
                   ELSE "N/A"
        region == Get(cd, "region", "N/A")
        subregion == Get(cd, "subregion", "N/A")
        formattedPopulation == Grouped(cd.population)
    IN [content |-> << TextBlock("Population data for " \o commonName
            \o ":\n\nPopulation: " \o formattedPopulation
            \o "\nOfficial name: " \o officialName
            \o "\nCapital: " \o capital
            \o "\nRegion: " \o region
            \o "\nSubregion: " \o subregion
            \o "\n\nData source: REST Countries API\nNote: Population figures are estimates and may not reflect the most recent census data.") >>,
        success |-> TRUE,
        country |-> [name |-> [common |-> commonName, official |-> officialName],
                     population |-> cd.population,
                     capital |-> capital,
                     region |-> region,
                     subregion |-> subregion],
        data_source |-> "REST Countries API",
        timestamp |-> t]

\* Array.isArray(data) ? data[0] : data
FirstMatch(data) ==
    IF data.t = "array"
    THEN (IF data.items = << >> THEN JUndefined ELSE data.items[1])
    ELSE data

\* !v: undefined, null, 0, "" and false.
Falsy(v) == v.t \in {"undefined", "null"} \/ (v.t = "scalar" /\ ~v.truthy)

\* v[key] is null.
IsNullIn(v, key) ==
    v.t = "object" /\ "nulls" \in DOMAIN v.o /\ key \in v.o.nulls

\* v[key] is not undefined. A key of a number, string or boolean is.
HasKey(v, key) == v.t = "object" /\ key \in DOMAIN v.o

\* Variant: every response that is not ok is taken for "not found".
PopulationTryStatusUnread(country, ans, t) ==
    IF ans.kind = "reject" THEN Throw(ans.message)
    ELSE IF ~ans.ok THEN Return(PopulationNotFound(country))
    ELSE IF ~ans.body.parses THEN Throw("Unexpected token < in JSON at position 0")
    ELSE LET countryData == FirstMatch(ans.body.data)
         IN IF Falsy(countryData)
            THEN Return(PopulationNoData(country))
            ELSE IF IsNullIn(countryData, "population")
            THEN Throw("Cannot read properties of null (reading 'toLocaleString')")
            ELSE IF ~HasKey(countryData, "population")
            THEN Throw("Cannot read properties of undefined (reading 'toLocaleString')")
            ELSE Return(PopulationFound(country, countryData.o, t))

\* The try block: what it returns, or the error it throws.
PopulationTry(country, ans, t) ==
    IF ans.kind = "reject" THEN Throw(ans.message)
    ELSE IF ~ans.ok
    THEN (IF ans.status = 404 THEN Return(PopulationNotFound(country))
          ELSE Throw("HTTP " \o ToString(ans.status) \o ": " \o ans.statusText))
    ELSE IF ~ans.body.parses THEN Throw("Unexpected token < in JSON at position 0")
    ELSE LET countryData == FirstMatch(ans.body.data)
         IN IF Falsy(countryData)
            THEN Return(PopulationNoData(country))
            ELSE IF IsNullIn(countryData, "population")
            THEN Throw("Cannot read properties of null (reading 'toLocaleString')")
            ELSE IF ~HasKey(countryData, "population")
            THEN Throw("Cannot read properties of undefined (reading 'toLocaleString')")
            ELSE Return(PopulationFound(country, countryData.o, t))

PopulationCatch(country, errorMessage) ==
    [content |-> << TextBlock("Error fetching population data for \"" \o country \o "\": " \o errorMessage \o ". Please try again or verify the country name.") >>,
     success |-> FALSE,
     error |-> errorMessage]

\* Variant: no try/catch around the body, so a failure leaves the handler.
PopulationHandlerNoCatch(args, ans, t) ==
    PopulationTry(Join(args.country.s), ans, t)

\* Variant: a module-level error flag that is set by a failure and never
\* cleared, so a failure of one request is reported to the requests after it.
PopulationHandlerPoisoned(args, ans, t) ==
    LET country == Join(args.country.s)
        tried == PopulationTry(country, ans, t)
        poisoned == \E j \in DOMAIN resp :
                        /\ "result" \in DOMAIN resp[j]
                        /\ "success" \in DOMAIN resp[j].result
                        /\ ~resp[j].result.success
    IN IF poisoned THEN Return(PopulationCatch(country, "previous request failed"))
       ELSE IF tried.threw THEN Return(PopulationCatch(country, tried.message))
       ELSE tried

PopulationHandler(args, ans, t) ==
    LET country == Join(args.country.s)
        tried == PopulationTry(country, ans, t)
    IN IF tried.threw THEN Return(PopulationCatch(country, tried.message)) ELSE tried

\* ------------------------------------------------------- mortgage payment

\* Math.round(x / d) of non-negative integers: the nearest integer, halves up.
RoundDiv(x, d) == (2 * x + d) \div (2 * d)

\* The scale of the fixed-point monthly rate and growth factor (four decimals).
RateScale == 10000

\* Math.pow(b, n) at RateScale for an integer n >= 0, by repeated squaring.
RECURSIVE Pow(_, _)
Pow(b, n) ==
    IF n <= 0 THEN RateScale
    ELSE LET half == Pow(b, n \div 2)
             square == (half * half) \div RateScale
         IN IF n % 2 = 1 THEN (square * b) \div RateScale ELSE square

\* Math.pow(1 + r, n), r being the monthly rate at RateScale.
Growth(r, n) == Pow(RateScale + r, n)

\* Variant: the zero-rate branch divides by the years, not by the payments.
MonthlyPaymentPerYear(loanAmount, annualInterestRate, numberOfPayments) ==
    IF annualInterestRate = 0
    THEN RoundDiv(loanAmount, numberOfPayments \div 12)
    ELSE LET monthlyInterestRate == RoundDiv(annualInterestRate, 12)
             interest == (loanAmount * monthlyInterestRate) \div RateScale
             denominator == Growth(monthlyInterestRate, numberOfPayments) - RateScale
         IN interest + (interest * RateScale + denominator \div 2) \div denominator

\* The monthly payment in hundredths: loanAmount / numberOfPayments in the
\* zero-rate branch (the monthly rate is 0 exactly when the annual rate is),
\* and otherwise the amortization formula in fixed point, an approximation
\* of the code's floating point.
MonthlyPayment(loanAmount, annualInterestRate, numberOfPayments) ==
    IF annualInterestRate = 0
    THEN RoundDiv(loanAmount, numberOfPayments)
    ELSE LET monthlyInterestRate == RoundDiv(annualInterestRate, 12)
             interest == (loanAmount * monthlyInterestRate) \div RateScale
             denominator == Growth(monthlyInterestRate, numberOfPayments) - RateScale
         IN interest + (interest * RateScale + denominator \div 2) \div denominator

\* The try block of the handler. Amounts are hundredths. In the zero-rate
\* branch monthlyPayment * numberOfPayments is loanAmount again: the
\* quotient is not rounded before it is multiplied, only the reported
\* figures are rounded to cents.
MortgageTry(args, t) ==
    LET loanAmount == args.loanAmount.n
        annualInterestRate == args.annualInterestRate.n
        loanTermYears == args.loanTermYears.n \div 100
        monthlyInterestRate == RoundDiv(annualInterestRate, 12)
        numberOfPayments == loanTermYears * 12
        monthlyPayment ==
            MonthlyPayment(loanAmount, annualInterestRate, numberOfPayments)
        totalAmountPaid ==
            IF annualInterestRate = 0 THEN loanAmount
            ELSE monthlyPayment * numberOfPayments
        totalInterest == totalAmountPaid - loanAmount
    IN Return(
        [content |-> << TextBlock("Mortgage Payment Calculation:\n\nLoan Amount: "
            \o formatCurrency(loanAmount)
            \o "\nAnnual Interest Rate: " \o NumberText(annualInterestRate)
            \o "%\nLoan Term: " \o ToString(loanTermYears)
            \o " years\n\nMonthly Payment: " \o formatCurrency(monthlyPayment)
            \o "\nTotal Amount Paid: " \o formatCurrency(totalAmountPaid)
            \o "\nTotal Interest Paid: " \o formatCurrency(totalInterest)
            \o "\n\nThis calculation uses the standard mortgage payment formula and assumes a fixed interest rate throughout the loan term.") >>,
         success |-> TRUE,
         calculation |-> [loanAmount |-> loanAmount,
                          annualInterestRate |-> annualInterestRate,
                          loanTermYears |-> loanTermYears,
                          monthlyPayment |-> monthlyPayment,
                          totalAmountPaid |-> totalAmountPaid,
                          totalInterest |-> totalInterest,
                          monthlyInterestRate |-> monthlyInterestRate,
                          numberOfPayments |-> numberOfPayments],
         formula |-> "M = P * [r(1 + r)^n] / [(1 + r)^n - 1]",
         timestamp |-> t])

MortgageCatch(errorMessage) ==
    [content |-> << TextBlock("Error calculating mortgage payment: " \o errorMessage \o ". Please check your input values and try again.") >>,
     success |-> FALSE,
     error |-> errorMessage]

MortgageHandler(args, t) ==
    LET tried == MortgageTry(args, t)
    IN IF tried.threw THEN Return(MortgageCatch(tried.message)) ELSE tried

\* ----------------------------------------------------------- letter count

UpperLetters == << "A", "B", "C", "D", "E", "F", "G", "H", "I", "J", "K", "L", "M",
                   "N", "O", "P", "Q", "R", "S", "T", "U", "V", "W", "X", "Y", "Z" >>

LowerLetters == << "a", "b", "c", "d", "e", "f", "g", "h", "i", "j", "k", "l", "m",
                   "n", "o", "p", "q", "r", "s", "t", "u", "v", "w", "x", "y", "z" >>

IndexIn(seq, c) == IF \E i \in DOMAIN seq : seq[i] = c
                   THEN CHOOSE i \in DOMAIN seq : seq[i] = c ELSE 0

\* String.prototype.toLowerCase / toUpperCase of one character.
toLowerCase(c) == IF IndexIn(UpperLetters, c) > 0
                  THEN LowerLetters[IndexIn(UpperLetters, c)] ELSE c

toUpperCase(c) == IF IndexIn(LowerLetters, c) > 0
                  THEN UpperLetters[IndexIn(LowerLetters, c)] ELSE c

RECURSIVE JoinNumbers(_)
JoinNumbers(ns) == IF ns = << >> THEN ""
                   ELSE IF Len(ns) = 1 THEN ToString(ns[1])
                   ELSE ToString(ns[1]) \o ", " \o JoinNumbers(Tail(ns))

\* The loop over lowerText: the zero-based indices whose character is the
\* whole of lowerLetter, ascending.
\* Variant: positions are counted from 1.
RECURSIVE PositionsOneBased(_, _, _)
PositionsOneBased(lowerText, lowerLetter, i) ==
    IF i >= Len(lowerText) THEN << >>
    ELSE (IF << lowerText[i + 1] >> = lowerLetter THEN << i + 1 >> ELSE << >>)
         \o PositionsOneBased(lowerText, lowerLetter, i + 1)

RECURSIVE Positions(_, _, _)
Positions(lowerText, lowerLetter, i) ==
    IF i >= Len(lowerText) THEN << >>
    ELSE (IF << lowerText[i + 1] >> = lowerLetter THEN << i >> ELSE << >>)
         \o Positions(lowerText, lowerLetter, i + 1)

InSeq(seq, x) == \E i \in DOMAIN seq : seq[i] = x

LetterCountTry(args, t) ==
    LET text == args.text.s
        letter == args.letter.s
        lowerText == [i \in DOMAIN text |-> toLowerCase(text[i])]
        lowerLetter == [i \in DOMAIN letter |-> toLowerCase(letter[i])]
        positions == Positions(lowerText, lowerLetter, 0)
        count == Len(positions)
        visualRepresentation ==
            Join([i \in DOMAIN text |->
                    IF InSeq(positions, i - 1) THEN toUpperCase(text[i]) ELSE text[i]])
    IN Return(
        [content |-> << TextBlock("Letter Count Results:\n\nText: \"" \o Join(text)
            \o "\"\nLetter to count: \"" \o Join(letter)
            \o "\" (case-insensitive)\n\nTotal occurrences: " \o ToString(count)
            \o "\nPositions: " \o (IF Len(positions) > 0 THEN JoinNumbers(positions) ELSE "none")
            \o "\n\nVisualization (matches in uppercase):\n\"" \o visualRepresentation
            \o "\"\n\nNote: Position counting starts from 0. Case-insensitive matching finds both uppercase and lowercase versions of the letter.") >>,
         success |-> TRUE,
         analysis |-> [originalText |-> Join(text),
                       targetLetter |-> Join(letter),
                       caseSensitive |-> FALSE,
                       totalCount |-> count,
                       positions |-> positions,
                       textLength |-> Len(text),
                       visualRepresentation |-> visualRepresentation],
         timestamp |-> t])

LetterCountCatch(errorMessage) ==
    [content |-> << TextBlock("Error counting letter occurrences: " \o errorMessage \o ". Please check your input values and try again.") >>,
     success |-> FALSE,
     error |-> errorMessage]

LetterCountHandler(args, t) ==
    LET tried == LetterCountTry(args, t)
    IN IF tried.threw THEN Return(LetterCountCatch(tried.message)) ELSE tried

\* ------------------------------------------------------- schema validation

Arg(args, f) == IF f \in DOMAIN args THEN args[f] ELSE Absent

Violation(kind, f, detail) == [kind |-> kind, field |-> f, detail |-> detail]

\* Variant: a value of the wrong kind is reported as a broken constraint.
FieldViolationsKindAsConstraint(fs, v) ==
    IF v.k = "absent" THEN << Violation("MissingArgument", fs.name, fs.kind) >>
    ELSE IF v.k # fs.kind THEN << Violation("ConstraintViolation", fs.name, fs.kind) >>
    ELSE (IF fs.int /\ v.n % 100 # 0
          THEN << Violation("ConstraintViolation", fs.name, "integer") >> ELSE << >>)
      \o (IF fs.positive /\ ~(v.n > 0)
          THEN << Violation("ConstraintViolation", fs.name, "positive") >> ELSE << >>)
      \o (IF fs.hasMin /\ ~(v.n >= fs.min)
          THEN << Violation("ConstraintViolation", fs.name, "minimum") >> ELSE << >>)
      \o (IF fs.hasLen /\ Len(v.s) # fs.len
          THEN << Violation("ConstraintViolation", fs.name, "exactLength") >> ELSE << >>)

\* The violations of one declared field by the supplied value, every one of
\* them: a missing argument, a value of the wrong kind, or each constraint
\* the value breaks.
FieldViolations(fs, v) ==
    IF v.k = "absent" THEN << Violation("MissingArgument", fs.name, fs.kind) >>
    ELSE IF v.k # fs.kind THEN << Violation("InvalidArgumentType", fs.name, fs.kind) >>
    ELSE (IF fs.int /\ v.n % 100 # 0
          THEN << Violation("InvalidArgumentType", fs.name, "integer") >> ELSE << >>)
      \o (IF fs.positive /\ ~(v.n > 0)
          THEN << Violation("ConstraintViolation", fs.name, "positive") >> ELSE << >>)
      \o (IF fs.hasMin /\ ~(v.n >= fs.min)
          THEN << Violation("ConstraintViolation", fs.name, "minimum") >> ELSE << >>)
      \o (IF fs.hasLen /\ Len(v.s) # fs.len
          THEN << Violation("ConstraintViolation", fs.name, "exactLength") >> ELSE << >>)

\* Variant: validation stops at the first field that is violated.
RECURSIVE ViolationsFirstOnly(_, _)
ViolationsFirstOnly(schema, args) ==
    IF schema = << >> THEN << >>
    ELSE LET first == FieldViolations(Head(schema), Arg(args, Head(schema).name))
         IN IF first # << >> THEN first ELSE ViolationsFirstOnly(Tail(schema), args)

\* The violations of a schema by the supplied arguments: those of every
\* declared field, in the schema's order.
RECURSIVE Violations(_, _)
Violations(schema, args) ==
    IF schema = << >> THEN << >>
    ELSE FieldViolations(Head(schema), Arg(args, Head(schema).name))
         \o Violations(Tail(schema), args)

\* Variant: the handler is handed every supplied argument.
NarrowedPassThrough(schema, args) == args

\* The narrowed argument bundle: the declared fields only.
Narrowed(schema, args) ==
    [f \in {schema[j].name : j \in DOMAIN schema} |-> args[f]]

\* ---------------------------------------------------------------- registry

Lookup(reg, name) ==
    IF \E j \in DOMAIN reg : reg[j].name = name
    THEN << reg[CHOOSE j \in DOMAIN reg : reg[j].name = name] >>
    ELSE << >>

ListAll(reg) ==
    [j \in DOMAIN reg |->
        [name |-> reg[j].name, description |-> reg[j].description,
         inputSchema |-> reg[j].schema]]

\* ---------------------------------------------------------------- envelopes

ProtocolVersion == "2024-11-05"

\* Variant: a result envelope that also carries a null error member.
ResultEnvelopeWithError(id, result) ==
    [jsonrpc |-> "2.0", id |-> id, result |-> result, error |-> << >>]

ResultEnvelope(id, result) == [jsonrpc |-> "2.0", id |-> id, result |-> result]

ErrorEnvelope(id, code, message, data) ==
    [jsonrpc |-> "2.0", id |-> id,
     error |-> [code |-> code, message |-> message, data |-> data]]

InvalidRequest == -32600
MethodNotFound == -32601
InvalidParams == -32602

\* A handler failure that reached the dispatch boundary, as a tool result.
HandlerFailure(message) ==
    [content |-> << TextBlock("Tool execution failed: " \o message) >>,
     success |-> FALSE,
     error |-> message]

\* The result object of a tools/call: what the handler returned.
ToolResult(outcome) ==
    IF outcome.threw THEN HandlerFailure(outcome.message) ELSE outcome.value

\* ----------------------------------------------------------------- requests

Hi == << "h", "i" >>
HelloWorldLower == << "h", "e", "l", "l", "o", " ", "w", "o", "r", "l", "d" >>
HelloWorld == << "H", "e", "l", "l", "o", " ", "W", "o", "r", "l", "d" >>
GermanyName == << "G", "e", "r", "m", "a", "n", "y" >>

Request(id, method, params) ==
    [jsonrpc |-> "2.0", id |-> id, method |-> method, params |-> params]

Call(id, name, arguments) ==
    Request(id, "tools/call", [name |-> name, arguments |-> arguments])

NoParams == [x \in {} |-> 0]

\* The requests every snapshot is sent: the smoke test's initialize and
\* tools/list, a method the server does not know, an envelope without a
\* method, and calls of echo and of a tool that no snapshot registers.
BaseRequests ==
    { Request(1, "initialize",
              [protocolVersion |-> "2024-11-05",
               clientInfo |-> [name |-> "test-client", version |-> "1.0.0"]]),
      Request(2, "tools/list", NoParams),
      Request(7, "resources/list", NoParams),
      [jsonrpc |-> "2.0", id |-> 8],
      Call(3, "echo", [message |-> Str(Hi)]),
      Call(9, "echo", [message |-> Num(500)]),
      Call(10, "count_character", [text |-> Str(Hi), character |-> Str(<< "h" >>)]) }

Sha1Requests == { Call(11, "calculate_sha1", [input |-> Str(HelloWorldLower)]) }

PopulationRequests ==
    { Call(12, "get_population_data", [country |-> Str(GermanyName)]) }

MortgageRequests ==
    { Call(4, "calculate_mortgage_payment",
           [loanAmount |-> Num(120000), annualInterestRate |-> Num(1200),
            loanTermYears |-> Num(100)]) }

Sha256Requests == { Call(6, "calculate_sha256", [input |-> Str(HelloWorldLower)]) }

LetterCountRequests ==
    { Call(5, "count_letter_occurrences",
           [text |-> Str(HelloWorld), letter |-> Str(<< "l" >>)]) }

\* The requests a client of a snapshot sends while requests overlap: the
\* base requests and calls of the population and mortgage tools where the
\* snapshot advertises them.
Menu(s) ==
    BaseRequests
    \cup (IF s \in {"route", "part_002", "part_004"} THEN PopulationRequests ELSE {})
    \cup (IF s \in {"part_002", "part_004"} THEN MortgageRequests ELSE {})

\* The argument sets of a single call: for every tool, values of the right
\* kind inside and outside the declared constraints, values of a wrong kind,
\* and a missing argument.
Supplied(a) == [f \in {g \in DOMAIN a : a[g] # Absent} |-> a[f]]

StringValues == { Str(Hi), Str(<< >>), Num(500), Bool(TRUE), Absent }

EchoCalls ==
    { Call(3, "echo", Supplied([message |-> m, verbose |-> x])) :
        m \in StringValues, x \in {Absent, Bool(TRUE)} }

Sha1Calls ==
    { Call(11, "calculate_sha1", Supplied([input |-> v])) :
        v \in {Str(HelloWorldLower), Str(<< >>), Num(500), Absent} }

Sha256Calls ==
    { Call(6, "calculate_sha256", Supplied([input |-> v])) :
        v \in {Str(HelloWorldLower), Str(<< >>), Num(500), Absent} }

PopulationCalls ==
    { Call(12, "get_population_data", Supplied([country |-> v])) :
        v \in {Str(GermanyName), Num(500), Absent} }

MortgageCalls ==
    { Call(4, "calculate_mortgage_payment",
           Supplied([loanAmount |-> a, annualInterestRate |-> r, loanTermYears |-> y])) :
        a \in {Num(120000), Num(12000000), Num(0), Num(-100), Str(Hi), Absent},
        r \in {Num(0), Num(1200), Num(-50), Str(Hi)},
        y \in {Num(100), Num(1000), Num(150), Num(0), Num(-100), Str(Hi), Absent} }

LetterCountCalls ==
    { Call(5, "count_letter_occurrences", Supplied([text |-> x, letter |-> l])) :
        x \in {Str(HelloWorld), Str(<< "L", "o", "L", "l" >>), Str(<< >>), Num(500)},
        l \in {Str(<< "l" >>), Str(<< "L" >>), Str(<< "w" >>), Str(<< "!" >>),
               Str(<< >>), Str(<< "l", "l" >>), Num(500), Absent} }

WideMenu(s) ==
    BaseRequests \cup EchoCalls
    \cup (IF s \in {"route", "part_002", "part_004"}
          THEN Sha1Calls \cup PopulationCalls ELSE {})
    \cup (IF s \in {"part_002", "part_004"} THEN MortgageCalls ELSE {})
    \cup (IF s = "part_004" THEN Sha256Calls \cup LetterCountCalls ELSE {})

\* The requests sent in pairs: calls that differ only in an argument the
\* schema does not declare, with declared arguments that are valid and that
\* are not, repeated calls of the hash tools, and the other methods and a
\* population call to be served in between.
PairMenu(s) ==
    { Call(3, "echo", [message |-> Str(Hi)]),
      Call(3, "echo", [message |-> Str(Hi), verbose |-> Bool(TRUE)]),
      Call(3, "echo", [message |-> Num(500)]),
      Call(3, "echo", [message |-> Num(500), verbose |-> Bool(TRUE)]),
      Call(3, "echo", [verbose |-> Bool(TRUE)]),
      Request(1, "initialize", NoParams),
      Request(2, "tools/list", NoParams) }
    \cup (IF s \in {"route", "part_002", "part_004"}
          THEN Sha1Requests \cup PopulationRequests ELSE {})
    \cup (IF s \in {"part_002", "part_004"}
          THEN MortgageRequests \cup
               { Call(4, "calculate_mortgage_payment",
                      [loanAmount |-> Num(120000), annualInterestRate |-> Num(1200),
                       loanTermYears |-> Num(100), currency |-> Str(Hi)]) }
          ELSE {})
    \cup (IF s = "part_004" THEN Sha256Requests ELSE {})

\* ------------------------------------------------------------ initial state

Slots == 1..MaxRequests

NoRequest == [id |-> 0]
NoOutcome == Return([pending |-> TRUE])
NoResponse == [pending |-> TRUE]
NoAnswer == [kind |-> "none"]

InitServer(q, w) ==
    /\ snapshot \in Snapshots
    /\ quota = q
    /\ menu = w
    /\ phase = "startup"
    /\ regIdx = 0
    /\ registry = << >>
    /\ regLog = << >>
    /\ stage = [i \in Slots |-> "idle"]
    /\ req = [i \in Slots |-> NoRequest]
    /\ out = [i \in Slots |-> NoOutcome]
    /\ resp = [i \in Slots |-> NoResponse]
    /\ calls = [i \in Slots |-> << >>]
    /\ answer = [i \in Slots |-> NoAnswer]
    /\ raised = [i \in Slots |-> FALSE]
    /\ now = 0
    /\ fetches = [i \in Slots |-> << >>]
    /\ path = [i \in Slots |-> << >>]

\* No smoke-test script is running against the server.
NoClient == [script |-> "none"]

InitWith(q, w) == InitServer(q, w) /\ client = NoClient

Init == InitWith(MaxRequests, "smoke")

\* One handler invocation: the tool's name and the arguments it was handed.
Invocation(name, args) == [name |-> name, args |-> args]

\* The handler registered under a name, called with the validated arguments;
\* ans is the provider's answer to the handler's fetch, t the clock's reading
\* when the handler returns.
InvokeTool(name, args, ans, t) ==
    CASE name = "echo" -> EchoHandler(args)
      [] name = "calculate_sha1" -> Sha1Handler(args)
      [] name = "calculate_sha256" -> Sha256Handler(args)
      [] name = "get_population_data" -> PopulationHandler(args, ans, t)
      [] name = "calculate_mortgage_payment" -> MortgageHandler(args, t)
      [] name = "count_letter_occurrences" -> LetterCountHandler(args, t)
      [] OTHER -> Throw("no handler")

\* ------------------------------------------------------------------ startup

\* One server.tool call of the registration callback. A name already in the
\* registry makes register throw, which ends the callback.
Register ==
    /\ phase = "startup"
    /\ regIdx < Len(Registrations(snapshot))
    /\ LET d == Registrations(snapshot)[regIdx + 1]
           duplicate == Lookup(registry, d.name) # << >>
       IN /\ regLog' = Append(regLog, d)
          /\ registry' = IF duplicate THEN registry ELSE Append(registry, d)
          /\ regIdx' = regIdx + 1
          /\ phase' = IF duplicate THEN "failed"
                      ELSE IF regIdx + 1 = Len(Registrations(snapshot)) THEN "serving"
                      ELSE "startup"
    /\ UNCHANGED << client, snapshot, quota, menu, stage, req, out, resp, calls, answer,
                    raised, now, fetches, path >>

\* ----------------------------------------------------------------- dispatch

\* Variant: a method is resolved for which the dispatch has no stage.
KnownMethodsWithResources ==
    {"initialize", "tools/list", "tools/call", "resources/list"}

KnownMethods == {"initialize", "tools/list", "tools/call"}

\* A request arrives; slots fill in order.
Receive(i, rq) ==
    /\ phase = "serving"
    /\ i <= quota
    /\ stage[i] = "idle"
    /\ \A j \in Slots : j < i => stage[j] # "idle"
    /\ stage' = [stage EXCEPT ![i] = "Received"]
    /\ req' = [req EXCEPT ![i] = rq]
    /\ path' = [path EXCEPT ![i] = << "Received" >>]
    /\ UNCHANGED << client, snapshot, quota, menu, phase, regIdx, registry, regLog, out,
                    resp, calls, answer, raised, now, fetches >>

\* The method is read off the envelope: a malformed envelope and an unknown
\* method are answered with an error envelope at once.
ResolveMethod(i) ==
    /\ stage[i] = "Received"
    /\ LET rq == req[i]
       IN IF "method" \notin DOMAIN rq
          THEN /\ resp' = [resp EXCEPT ![i] =
                      ErrorEnvelope(rq.id, InvalidRequest, "Invalid Request", << >>)]
               /\ stage' = [stage EXCEPT ![i] = "Responded"]
          ELSE IF rq.method \notin KnownMethods
          THEN /\ resp' = [resp EXCEPT ![i] =
                      ErrorEnvelope(rq.id, MethodNotFound, "Method not found", << >>)]
               /\ stage' = [stage EXCEPT ![i] = "Responded"]
          ELSE /\ resp' = resp
               /\ stage' = [stage EXCEPT ![i] = "MethodResolved"]
    /\ path' = [path EXCEPT ![i] = Append(@, stage'[i])]
    /\ UNCHANGED << client, snapshot, quota, menu, phase, regIdx, registry, regLog, req,
                    out, calls, answer, raised, now, fetches >>

\* initialize: the fixed protocol version and the declared capabilities.
Initialize(i) ==
    /\ stage[i] = "MethodResolved"
    /\ req[i].method = "initialize"
    /\ out' = [out EXCEPT ![i] =
            Return([protocolVersion |-> ProtocolVersion,
                    capabilities |-> [tools |-> Capabilities(snapshot)]])]
    /\ stage' = [stage EXCEPT ![i] = "Initialized"]
    /\ path' = [path EXCEPT ![i] = Append(@, "Initialized")]
    /\ UNCHANGED << client, snapshot, quota, menu, phase, regIdx, registry, regLog, req,
                    resp, calls, answer, raised, now, fetches >>

\* tools/list: every registered tool, with its schema.
ListTools(i) ==
    /\ stage[i] = "MethodResolved"
    /\ req[i].method = "tools/list"
    /\ out' = [out EXCEPT ![i] = Return([tools |-> ListAll(registry)])]
    /\ stage' = [stage EXCEPT ![i] = "ToolsListed"]
    /\ path' = [path EXCEPT ![i] = Append(@, "ToolsListed")]
    /\ UNCHANGED << client, snapshot, quota, menu, phase, regIdx, registry, regLog, req,
                    resp, calls, answer, raised, now, fetches >>

\* Whether the handler's try block threw, for the handlers that have one.
RaisedInside(name, args, ans, t) ==
    CASE name = "get_population_data" ->
            PopulationTry(Join(args.country.s), ans, t).threw
      [] name = "calculate_mortgage_payment" -> MortgageTry(args, t).threw
      [] name = "count_letter_occurrences" -> LetterCountTry(args, t).threw
      [] OTHER -> FALSE

\* tools/call: registry lookup, schema validation, then the handler. The
\* population handler starts its fetch and waits; every other handler runs
\* to its return.
CallTool(i) ==
    /\ stage[i] = "MethodResolved"
    /\ req[i].method = "tools/call"
    /\ LET rq == req[i]
           name == rq.params.name
           found == Lookup(registry, name)
           schema == found[1].schema
           violations == Violations(schema, rq.params.arguments)
           args == Narrowed(schema, rq.params.arguments)
       IN IF found = << >>
          THEN /\ resp' = [resp EXCEPT ![i] =
                      ErrorEnvelope(rq.id, InvalidParams, "UnknownTool", << name >>)]
               /\ stage' = [stage EXCEPT ![i] = "Responded"]
               /\ path' = [path EXCEPT ![i] = Append(@, "Responded")]
               /\ UNCHANGED << out, calls, raised, fetches >>
          ELSE IF violations # << >>
          THEN /\ resp' = [resp EXCEPT ![i] =
                      ErrorEnvelope(rq.id, InvalidParams, "InvalidArguments", violations)]
               /\ stage' = [stage EXCEPT ![i] = "Responded"]
               /\ path' = [path EXCEPT ![i] = Append(@, "Responded")]
               /\ UNCHANGED << out, calls, raised, fetches >>
          ELSE IF name = "get_population_data"
          THEN /\ calls' = [calls EXCEPT ![i] = Append(@, Invocation(name, args))]
               /\ fetches' = [fetches EXCEPT ![i] = Append(@, args.country)]
               /\ stage' = [stage EXCEPT ![i] = "Fetching"]
               /\ path' = [path EXCEPT ![i] = Append(@, "ToolInvoked")]
               /\ UNCHANGED << out, resp, raised >>
          ELSE /\ calls' = [calls EXCEPT ![i] = Append(@, Invocation(name, args))]
               /\ out' = [out EXCEPT ![i] = InvokeTool(name, args, NoAnswer, now)]
               /\ raised' = [raised EXCEPT ![i] = RaisedInside(name, args, NoAnswer, now)]
               /\ stage' = [stage EXCEPT ![i] = "ToolInvoked"]
               /\ path' = [path EXCEPT ![i] = Append(@, "ToolInvoked")]
               /\ UNCHANGED << resp, fetches >>
    /\ UNCHANGED << client, snapshot, quota, menu, phase, regIdx, registry, regLog, req,
                    answer, now >>

\* Variant: a fetch that failed or was answered with a status that is not ok
\* is issued once more before the handler goes on.
ProviderReplyRetry(i, ans) ==
    /\ stage[i] = "Fetching"
    /\ LET rq == req[i]
           schema == Lookup(registry, rq.params.name)[1].schema
           args == Narrowed(schema, rq.params.arguments)
           again == Len(fetches[i]) < 2 /\ (ans.kind = "reject" \/ ~ans.ok)
       IN IF again
          THEN /\ fetches' = [fetches EXCEPT ![i] = Append(@, args.country)]
               /\ UNCHANGED << out, raised, answer, stage >>
          ELSE /\ out' = [out EXCEPT ![i] = InvokeTool(rq.params.name, args, ans, now)]
               /\ raised' = [raised EXCEPT ![i] =
                                RaisedInside(rq.params.name, args, ans, now)]
               /\ answer' = [answer EXCEPT ![i] = ans]
               /\ stage' = [stage EXCEPT ![i] = "ToolInvoked"]
               /\ fetches' = fetches
    /\ UNCHANGED << client, snapshot, quota, menu, phase, regIdx, registry, regLog, req,
                    resp, calls, now, path >>

\* The provider answers the fetch and the population handler runs to its
\* return.
ProviderReply(i, ans) ==
    /\ stage[i] = "Fetching"
    /\ LET rq == req[i]
           schema == Lookup(registry, rq.params.name)[1].schema
           args == Narrowed(schema, rq.params.arguments)
       IN /\ out' = [out EXCEPT ![i] = InvokeTool(rq.params.name, args, ans, now)]
          /\ raised' = [raised EXCEPT ![i] = RaisedInside(rq.params.name, args, ans, now)]
    /\ answer' = [answer EXCEPT ![i] = ans]
    /\ stage' = [stage EXCEPT ![i] = "ToolInvoked"]
    /\ UNCHANGED << client, snapshot, quota, menu, phase, regIdx, registry, regLog, req,
                    resp, calls, now, fetches, path >>

\* The result of the stage's work is sent in a result envelope.
Respond(i) ==
    /\ stage[i] \in {"Initialized", "ToolsListed", "ToolInvoked"}
    /\ resp' = [resp EXCEPT ![i] =
            ResultEnvelope(req[i].id,
                IF stage[i] = "ToolInvoked" THEN ToolResult(out[i]) ELSE out[i].value)]
    /\ stage' = [stage EXCEPT ![i] = "Responded"]
    /\ path' = [path EXCEPT ![i] = Append(@, "Responded")]
    /\ UNCHANGED << client, snapshot, quota, menu, phase, regIdx, registry, regLog, req,
                    out, calls, answer, raised, now, fetches >>

\* Time passes. Only a handler reads the clock, so the clock moves while a
\* handler is about to run or waits for its fetch.
Tick ==
    /\ now < MaxClock
    /\ \E i \in Slots :
          \/ stage[i] = "Fetching"
          \/ stage[i] = "MethodResolved" /\ req[i].method = "tools/call"
    /\ now' = now + 1
    /\ UNCHANGED << client, snapshot, quota, menu, phase, regIdx, registry, regLog, stage,
                    req, out, resp, calls, answer, raised, fetches, path >>

Requests ==
    CASE menu = "smoke" -> Menu(snapshot)
      [] menu = "arguments" -> WideMenu(snapshot)
      [] menu = "pairs" -> PairMenu(snapshot)

\* What the provider may answer; the wide set when requests are drawn from
\* the wide argument sets.
Answers ==
    IF menu = "arguments" THEN ProviderAnswers \cup WideAnswers
    ELSE ProviderAnswers

Next ==
    \/ Register
    \/ \E i \in Slots : \E rq \in Requests : Receive(i, rq)
    \/ \E i \in Slots : ResolveMethod(i)
    \/ \E i \in Slots : Initialize(i)
    \/ \E i \in Slots : ListTools(i)
    \/ \E i \in Slots : CallTool(i)
    \/ \E i \in Slots : \E ans \in Answers : ProviderReply(i, ans)
    \/ \E i \in Slots : Respond(i)
    \/ Tick

Spec == Init /\ [][Next]_vars

\* One request at a time, drawn from the wide argument sets.
InitArgs == InitWith(1, "arguments")

SpecArgs == InitArgs /\ [][Next]_vars

\* Two requests, in flight together or one after the other, drawn from the
\* pairs.
InitPairs == InitWith(2, "pairs")

SpecPairs == InitPairs /\ [][Next]_vars

\* The server takes every step it can take: the registration callback runs to
\* its end and a request that is ready for its next stage gets it. Nothing
\* obliges a client to send a request or the provider to answer a fetch.
ServerFairness ==
    /\ WF_vars(Register)
    /\ \A i \in Slots :
          /\ WF_vars(ResolveMethod(i))
          /\ WF_vars(Initialize(i))
          /\ WF_vars(ListTools(i))
          /\ WF_vars(CallTool(i))
          /\ WF_vars(Respond(i))

\* One request, so that its stages are followed to the end of the run.
InitLive == InitWith(1, "smoke")

SpecLive == InitLive /\ [][Next]_vars /\ ServerFairness


\* -------------------------------------------------------- smoke-test client

\* The most 'data' events one response body arrives in.
MaxChunks == 2

\* The three test scripts: src/unnamed/part_001, and the first and the second
\* script of src/unnamed/part_000.
Scripts == {"part_001", "part_000_first", "part_000_second"}

HelloFromTestScript ==
    << "H", "e", "l", "l", "o", " ", "f", "r", "o", "m", " ", "t", "e",
       "s", "t", " ", "s", "c", "r", "i", "p", "t", "!" >>

LetterCountText ==
    << "H", "e", "l", "l", "o", " ", "W", "o", "r", "l", "d", "!", " ",
       "T", "h", "i", "s", " ", "i", "s", " ", "a", " ", "t", "e", "s",
       "t", " ", "s", "t", "r", "i", "n", "g", " ", "w", "i", "t", "h",
       " ", "m", "u", "l", "t", "i", "p", "l", "e", " ", "l", "e", "t",
       "t", "e", "r", "s", "." >>

InitializeTest ==
    Request(1, "initialize",
            [protocolVersion |-> ProtocolVersion,
             capabilities |-> [tools |-> NoParams],
             clientInfo |-> [name |-> "test-client", version |-> "1.0.0"]])

ListToolsTest == Request(2, "tools/list", NoParams)

EchoTest == Call(3, "echo", [message |-> Str(HelloFromTestScript)])

MortgageTest ==
    Call(4, "calculate_mortgage_payment",
         [loanAmount |-> Num(30000000), annualInterestRate |-> Num(650),
          loanTermYears |-> Num(3000)])

LetterCountTest ==
    Call(5, "count_letter_occurrences",
         [text |-> Str(LetterCountText), letter |-> Str(<< "l" >>)])

Sha256Test == Call(6, "calculate_sha256", [input |-> Str(HelloWorldLower)])

\* The tool calls a script makes after tools/list, in order, each behind an
\* "if the tool is listed".
Tests(script) ==
    CASE script = "part_001" -> << EchoTest >>
      [] script = "part_000_first" -> << EchoTest, MortgageTest >>
      [] script = "part_000_second" ->
            << EchoTest, MortgageTest, LetterCountTest, Sha256Test >>
      [] OTHER -> << >>

\* A script at its first line: nothing sent, nothing received.
ClientStart(script) ==
    [script |-> script, pc |-> "initialize", test |-> 1, waiting |-> FALSE,
     chunks |-> 0, sent |-> << >>, received |-> << >>,
     toolsResponse |-> JUndefined, running |-> TRUE, exitCode |-> 0]

\* What the transport handed the client for one request: a request error, or
\* a complete response body.
RequestError == [kind |-> "error"]
ResponseBody(body) == [kind |-> "body", body |-> body]

Resolved(value) == [rejected |-> FALSE, value |-> value]
Rejected(message) == [rejected |-> TRUE, message |-> message]

\* Variant: a body that does not parse resolves the promise with undefined.
OnEndLenient(body) ==
    IF body.parses THEN Resolved(body.data) ELSE Resolved(JUndefined)

\* res.on('end'): the promise resolves with the parsed body, or rejects.
OnEnd(body) ==
    IF body.parses
    THEN Resolved(body.data)
    ELSE Rejected("Failed to parse response: Unexpected token < in JSON at position 0")

\* Reading .result of null or undefined throws a TypeError.
HasNoProperties(v) == v \in {JNull, JUndefined}

\* toolsResponse.result && toolsResponse.result.tools
HasTools(v) ==
    /\ ~HasNoProperties(v)
    /\ "result" \in DOMAIN v
    /\ "tools" \in DOMAIN v.result

\* toolsResponse.result.tools.find(tool => tool.name === name)
Listed(v, name) ==
    /\ HasTools(v)
    /\ \E j \in DOMAIN v.result.tools : v.result.tools[j].name = name

\* The bodies a server may answer a request with: the snapshot's own answer
\* to initialize and to tools/list, an error envelope, a result without
\* tools, an empty list, null, and a body that is not JSON (an event stream).
PeerBodies(rq) ==
    CASE rq.method = "initialize" ->
            { NoJson,
              Json(ResultEnvelope(rq.id,
                    [protocolVersion |-> ProtocolVersion,
                     capabilities |-> [tools |-> Capabilities(snapshot)]])) }
      [] rq.method = "tools/list" ->
            { NoJson,
              Json(JNull),
              Json(ResultEnvelope(rq.id,
                    [tools |-> ListAll(Registrations(snapshot))])),
              Json(ResultEnvelope(rq.id, [tools |-> << >>])),
              Json(ResultEnvelope(rq.id, NoParams)),
              Json(ErrorEnvelope(rq.id, MethodNotFound, "Method not found",
                                 << >>)) }
      [] OTHER ->
            { NoJson,
              Json(ResultEnvelope(rq.id,
                    [content |-> << TextBlock("Tool " \o rq.params.name) >>])),
              Json(ErrorEnvelope(rq.id, InvalidParams, "InvalidArguments",
                                 << >>)) }

serverVars ==
    << snapshot, quota, menu, phase, regIdx, registry, regLog, stage, req, out,
       resp, calls, answer, raised, now, fetches, path >>

ClientRuns ==
    /\ client.script \in Scripts
    /\ client.running

\* The request the script is about to make, if it is about to make one.
NextRequest ==
    CASE client.pc = "initialize" -> << InitializeTest >>
      [] client.pc = "tools/list" -> << ListToolsTest >>
      [] client.pc = "tests" /\ client.test <= Len(Tests(client.script)) ->
            << Tests(client.script)[client.test] >>
      [] OTHER -> << >>

\* process.exit(1) in the catch of testMCPServer.
Exit1(c) == [c EXCEPT !.waiting = FALSE, !.running = FALSE, !.exitCode = 1]

\* await makeRequest(...): req.write, req.end, and the script waits.
ClientSend ==
    /\ ClientRuns
    /\ ~client.waiting
    /\ NextRequest # << >>
    /\ LET rq == NextRequest[1]
       IN /\ client.pc = "tests" =>
                Listed(client.toolsResponse, rq.params.name)
          /\ client' = [client EXCEPT !.sent = Append(@, rq),
                                      !.waiting = TRUE,
                                      !.chunks = 0]
    /\ UNCHANGED serverVars

\* The else branch of a test: the tool is not listed, a warning is logged.
ClientSkip ==
    /\ ClientRuns
    /\ ~client.waiting
    /\ client.pc = "tests"
    /\ NextRequest # << >>
    /\ ~Listed(client.toolsResponse, NextRequest[1].params.name)
    /\ client' = [client EXCEPT !.test = @ + 1]
    /\ UNCHANGED serverVars

\* res.on('data'): one more chunk of the body.
ClientData ==
    /\ ClientRuns
    /\ client.waiting
    /\ client.chunks < MaxChunks
    /\ client' = [client EXCEPT !.chunks = @ + 1]
    /\ UNCHANGED serverVars

\* req.on('error'): the promise rejects and the catch exits.
ClientError ==
    /\ ClientRuns
    /\ client.waiting
    /\ client.chunks = 0
    /\ client' = Exit1([client EXCEPT !.received = Append(@, RequestError)])
    /\ UNCHANGED serverVars

\* res.on('end'): the body is parsed, the promise settles and the script
\* goes on from its await.
ClientEnd(body) ==
    /\ ClientRuns
    /\ client.waiting
    /\ LET got == [client EXCEPT !.received = Append(@, ResponseBody(body)),
                                 !.waiting = FALSE]
           settled == OnEnd(body)
       IN client' =
            IF settled.rejected THEN Exit1(got)
            ELSE CASE client.pc = "initialize" ->
                        [got EXCEPT !.pc = "tools/list"]
                   [] client.pc = "tools/list" ->
                        IF HasNoProperties(settled.value)
                        THEN Exit1([got EXCEPT
                                      !.toolsResponse = settled.value])
                        ELSE [got EXCEPT
                                !.toolsResponse = settled.value,
                                !.pc = IF HasTools(settled.value)
                                       THEN "tests" ELSE "passed"]
                   [] OTHER -> [got EXCEPT !.test = @ + 1]
    /\ UNCHANGED serverVars

\* "All tests passed": testMCPServer returns and the process ends.
ClientPass ==
    /\ ClientRuns
    /\ ~client.waiting
    /\ NextRequest = << >>
    /\ client' = [client EXCEPT !.pc = "passed", !.running = FALSE]
    /\ UNCHANGED serverVars

ResponseBodies ==
    IF ClientRuns /\ client.waiting
    THEN PeerBodies(client.sent[Len(client.sent)])
    ELSE {}

NextClient ==
    \/ ClientSend
    \/ ClientSkip
    \/ ClientData
    \/ ClientError
    \/ \E body \in ResponseBodies : ClientEnd(body)
    \/ ClientPass

\* One script run against one snapshot of the server.
InitClient ==
    /\ InitServer(0, "smoke")
    /\ client \in {ClientStart(script) : script \in Scripts}

SpecClient == InitClient /\ [][NextClient]_vars


\* ==================================================================== claims

Responded(i) == stage[i] = "Responded"

HasMethod(i, m) == "method" \in DOMAIN req[i] /\ req[i].method = m

IsCall(i) == HasMethod(i, "tools/call")

IsCallOf(i, name) == IsCall(i) /\ req[i].params.name = name

IsResult(e) == "result" \in DOMAIN e

IsError(e) == "error" \in DOMAIN e

\* A content array with at least one block of type text (non-empty text).
HasTextBlock(r) ==
    /\ "content" \in DOMAIN r
    /\ \E j \in DOMAIN r.content : r.content[j].type = "text"

HasNonEmptyText(r) ==
    /\ "content" \in DOMAIN r
    /\ \E j \in DOMAIN r.content :
          r.content[j].type = "text" /\ r.content[j].text # ""

FailurePayload(r) == "success" \in DOMAIN r /\ r.success = FALSE

\* C1: whenever a failure is raised inside a registered tool's handler
\* during a tools/call, the failure does not leave the handler, and the
\* response to that request is a result envelope (no error) whose result has
\* success = false and at least one non-empty text block.
C1_HandlerFailureIsData ==
    \A i \in Slots :
        raised[i] =>
            /\ ~out[i].threw
            /\ Responded(i) =>
                  /\ IsResult(resp[i])
                  /\ ~IsError(resp[i])
                  /\ FailurePayload(resp[i].result)
                  /\ HasNonEmptyText(resp[i].result)

\* A request whose provider answered 500 has been answered, and another
\* whose fetch was rejected has been answered too.
C1_Witness ==
    /\ \E i \in Slots :
          /\ Responded(i) /\ raised[i]
          /\ answer[i].kind = "http" /\ answer[i].status = 500
    /\ \E i \in Slots :
          Responded(i) /\ raised[i] /\ answer[i].kind = "reject"

SameRequest(i, j) == req[i] = req[j] /\ answer[i] = answer[j]

\* A response without the timestamp field of its result.
WithoutTimestamp(e) ==
    IF IsResult(e) /\ "timestamp" \in DOMAIN e.result
    THEN [e EXCEPT !.result = [k \in DOMAIN e.result \ {"timestamp"} |-> e.result[k]]]
    ELSE e

\* C2 as stated: two answered requests with the same method and params (and
\* the same provider answer) have the same response, whatever was served
\* between them.
C2_SameRequestSameResponse ==
    \A i, j \in Slots :
        (Responded(i) /\ Responded(j) /\ SameRequest(i, j)) => resp[i] = resp[j]

\* C2, amended: two answered requests with the same method and params (and
\* the same provider answer) have responses that agree in everything but the
\* timestamp field of the result, whatever was served between them and
\* whether or not an earlier request's handler failed.
C2_SameRequestSameResponseButTimestamp ==
    \A i, j \in Slots :
        (Responded(i) /\ Responded(j) /\ SameRequest(i, j)) =>
            WithoutTimestamp(resp[i]) = WithoutTimestamp(resp[j])

\* The same population request was made twice, the provider failed both
\* times, and both have been answered.
C2_Witness ==
    \E i, j \in Slots :
        /\ i # j
        /\ Responded(i) /\ Responded(j) /\ SameRequest(i, j)
        /\ raised[i] /\ raised[j]


\* What the arguments of a call of a tool break in the tool's declared
\* schema, spelled out per tool: a missing argument, a value of the wrong
\* kind, loanAmount <= 0, annualInterestRate < 0, a loanTermYears that is
\* not an integer or not positive, a letter whose length is not 1.
NotString(a, f) == f \notin DOMAIN a \/ a[f].k # "string"

NotNumber(a, f) == f \notin DOMAIN a \/ a[f].k # "number"

BreaksSchema(name, a) ==
    CASE name = "echo" -> NotString(a, "message")
      [] name \in {"calculate_sha1", "calculate_sha256"} -> NotString(a, "input")
      [] name = "get_population_data" -> NotString(a, "country")
      [] name = "calculate_mortgage_payment" ->
            \/ NotNumber(a, "loanAmount") \/ NotNumber(a, "annualInterestRate")
            \/ NotNumber(a, "loanTermYears")
            \/ a.loanAmount.n <= 0
            \/ a.annualInterestRate.n < 0
            \/ a.loanTermYears.n % 100 # 0
            \/ a.loanTermYears.n <= 0
      [] name = "count_letter_occurrences" ->
            \/ NotString(a, "text") \/ NotString(a, "letter")
            \/ Len(a.letter.s) # 1
      [] OTHER -> FALSE

IsRegistered(name) == \E j \in DOMAIN registry : registry[j].name = name

BadCall(i) ==
    /\ IsCall(i)
    /\ IsRegistered(req[i].params.name)
    /\ BreaksSchema(req[i].params.name, req[i].params.arguments)

\* C3: a tools/call of a registered tool whose arguments break the tool's
\* declared schema never has a handler invoked for it, and its response is
\* an InvalidArguments error.
C3_InvalidArgumentsNeverReachHandler ==
    \A i \in Slots :
        BadCall(i) =>
            /\ calls[i] = << >>
            /\ stage[i] \notin {"Fetching", "ToolInvoked"}
            /\ Responded(i) =>
                  /\ IsError(resp[i])
                  /\ resp[i].error.message = "InvalidArguments"

\* A mortgage call with loanAmount 0 and otherwise valid arguments has been
\* answered.
C3_Witness ==
    \E i \in Slots :
        /\ Responded(i)
        /\ IsCallOf(i, "calculate_mortgage_payment")
        /\ IsRegistered("calculate_mortgage_payment")
        /\ req[i].params.arguments =
              [loanAmount |-> Num(0), annualInterestRate |-> Num(1200),
               loanTermYears |-> Num(100)]

\* C4: a tools/call that names a tool that is not registered, count_character
\* in particular, is answered with an error envelope, has no handler invoked
\* for it, and leaves the server serving.
C4_UnknownToolIsAnError ==
    \A i \in Slots :
        (IsCall(i) /\ (~IsRegistered(req[i].params.name)
                       \/ req[i].params.name = "count_character")) =>
            /\ calls[i] = << >>
            /\ stage[i] \in {"Received", "MethodResolved", "Responded"}
            /\ phase = "serving"
            /\ Responded(i) => (IsError(resp[i]) /\ ~IsResult(resp[i]))

\* Under the route file, whose capabilities advertise count_character, a
\* call of count_character has been answered.
C4_Witness ==
    \E i \in Slots :
        /\ snapshot = "route"
        /\ Responded(i)
        /\ IsCallOf(i, "count_character")

\* C5: every response envelope holds exactly one of result and error, and
\* its id is the id of the request it answers; a request that has not been
\* answered has no envelope.
C5_ExactlyOneOfResultAndError ==
    \A i \in Slots :
        IF Responded(i)
        THEN /\ IsResult(resp[i]) # IsError(resp[i])
             /\ resp[i].id = req[i].id
             /\ resp[i].jsonrpc = "2.0"
        ELSE resp[i] = NoResponse

\* Two requests with different ids have been answered, one with a result
\* and one with an error.
C5_Witness ==
    \E i, j \in Slots :
        /\ Responded(i) /\ Responded(j)
        /\ req[i].id # req[j].id
        /\ IsResult(resp[i]) /\ IsError(resp[j])


UnknownMethod(i) == "method" \in DOMAIN req[i] /\ req[i].method \notin KnownMethods

C7_EveryResultHasATextBlock ==
    \A i \in Slots :
        /\ (calls[i] # << >> /\ stage[i] \in {"ToolInvoked", "Responded"}) =>
              (~out[i].threw /\ HasTextBlock(out[i].value))
        /\ (Responded(i) /\ IsCall(i) /\ IsResult(resp[i])) =>
              HasTextBlock(resp[i].result)

\* A population call that the provider answered with 404 has been answered
\* (a domain failure, not a caught exception).
C7_Witness ==
    \E i \in Slots :
        /\ Responded(i)
        /\ IsCallOf(i, "get_population_data")
        /\ answer[i].kind = "http" /\ answer[i].status = 404
        /\ ~raised[i]
        /\ FailurePayload(resp[i].result)

\* C8 as stated: the result of every answered tools/call carries a success
\* field.
C8_EveryResultCarriesSuccess ==
    \A i \in Slots :
        (Responded(i) /\ IsCall(i) /\ IsResult(resp[i])) =>
            "success" \in DOMAIN resp[i].result

Names(seq) == {seq[j].name : j \in DOMAIN seq}

\* C9 as stated: the tool names in the capabilities of an initialize
\* response are the registered tool names, and each capability's
\* description is the description its tool was registered with.
C9_CapabilitiesComeFromTheRegistry ==
    \A i \in Slots :
        (Responded(i) /\ HasMethod(i, "initialize")) =>
            LET tools == resp[i].result.capabilities.tools
            IN /\ Names(tools) = Names(registry)
               /\ \A j \in DOMAIN tools : \A k \in DOMAIN registry :
                     tools[j].name = registry[k].name =>
                        tools[j].description = registry[k].description

CountOf(seq, name) == Cardinality({j \in DOMAIN seq : seq[j].name = name})

\* C10: once registration has ended it has not failed; lookup of every name
\* handed to register returns the descriptor handed to register, the
\* registry and every tools/list result list each of these names exactly
\* once and no other name; and no step taken after registration changes
\* the registry.
C10_RegistryIsExactAndImmutable ==
    /\ [](phase # "startup" =>
            /\ phase = "serving"
            /\ \A j \in DOMAIN regLog :
                  /\ Lookup(registry, regLog[j].name) = << regLog[j] >>
                  /\ CountOf(ListAll(registry), regLog[j].name) = 1
            /\ Names(ListAll(registry)) = Names(regLog)
            /\ \A i \in Slots :
                  (Responded(i) /\ HasMethod(i, "tools/list")) =>
                      /\ Names(resp[i].result.tools) = Names(regLog)
                      /\ \A j \in DOMAIN regLog :
                            CountOf(resp[i].result.tools, regLog[j].name) = 1)
    /\ [][phase # "startup" => (registry' = registry /\ phase' = phase)]_vars

\* Under the snapshot that registers six tools, a tools/list has been
\* answered after a population call whose handler failed.
C10_Witness ==
    /\ snapshot = "part_004"
    /\ Len(registry) = 6
    /\ \E i, j \in Slots :
          /\ Responded(i) /\ raised[i]
          /\ Responded(j) /\ HasMethod(j, "tools/list")

\* ------------------------------------------------ C11, C12: the validator

\* The declared fields of a tool that the supplied arguments violate, read
\* off the tool's zod declarations.
BrokenFields(name, a) ==
    CASE name = "echo" -> {f \in {"message"} : NotString(a, f)}
      [] name \in {"calculate_sha1", "calculate_sha256"} ->
            {f \in {"input"} : NotString(a, f)}
      [] name = "get_population_data" -> {f \in {"country"} : NotString(a, f)}
      [] name = "calculate_mortgage_payment" ->
            {f \in {"loanAmount"} : NotNumber(a, f) \/ a[f].n <= 0}
            \cup {f \in {"annualInterestRate"} : NotNumber(a, f) \/ a[f].n < 0}
            \cup {f \in {"loanTermYears"} :
                      NotNumber(a, f) \/ a[f].n % 100 # 0 \/ a[f].n <= 0}
      [] name = "count_letter_occurrences" ->
            {f \in {"text"} : NotString(a, f)}
            \cup {f \in {"letter"} : NotString(a, f) \/ Len(a[f].s) # 1}
      [] OTHER -> {}

\* The fields named by the violations an error response lists.
ListedFields(e) == {e.error.data[k].field : k \in DOMAIN e.error.data}

\* C11: the InvalidArguments error that answers a tools/call lists a
\* violation for every declared field the supplied arguments violate, and
\* for no other field, however many fields are violated.
C11_EveryViolatedFieldIsListed ==
    \A i \in Slots :
        (Responded(i) /\ BadCall(i)) =>
            /\ IsError(resp[i])
            /\ resp[i].error.message = "InvalidArguments"
            /\ ListedFields(resp[i]) =
                  BrokenFields(req[i].params.name, req[i].params.arguments)

\* A mortgage call whose three arguments are all invalid (loanAmount 0, a
\* negative rate, loanTermYears 0) has been answered with an error that
\* lists three fields.
C11_Witness ==
    \E i \in Slots :
        /\ Responded(i)
        /\ IsCallOf(i, "calculate_mortgage_payment")
        /\ req[i].params.arguments =
              [loanAmount |-> Num(0), annualInterestRate |-> Num(-50),
               loanTermYears |-> Num(0)]
        /\ IsError(resp[i])
        /\ Cardinality(ListedFields(resp[i])) = 3

\* The violations of one field that an error response lists, by kind.
Lists(e, kind, f) ==
    \E k \in DOMAIN e.error.data :
        e.error.data[k].kind = kind /\ e.error.data[k].field = f

\* C12: for every registered tool and every field its schema declares, a
\* call that omits the field is answered with a violation of kind
\* MissingArgument naming the field, and a call that supplies a value of the
\* wrong kind (a non-string for a string field, a non-number for a number
\* field, a number with a fractional part for an integer field) is answered
\* with a violation of kind InvalidArgumentType naming the field.
C12_MissingAndWrongKindAreNamed ==
    \A i \in Slots :
        (Responded(i) /\ IsCall(i) /\ IsRegistered(req[i].params.name)) =>
            LET a == req[i].params.arguments
                schema == Lookup(registry, req[i].params.name)[1].schema
            IN \A j \in DOMAIN schema :
                 LET f == schema[j].name
                 IN /\ f \notin DOMAIN a =>
                          (IsError(resp[i]) /\ Lists(resp[i], "MissingArgument", f))
                    /\ (f \in DOMAIN a /\ a[f].k # schema[j].kind) =>
                          (IsError(resp[i]) /\ Lists(resp[i], "InvalidArgumentType", f))
                    /\ (f \in DOMAIN a /\ a[f].k = "number" /\ schema[j].int
                            /\ a[f].n % 100 # 0) =>
                          (IsError(resp[i]) /\ Lists(resp[i], "InvalidArgumentType", f))

\* A mortgage call that omits loanAmount, supplies a string as the rate and
\* 1.5 as loanTermYears has been answered with an error.
C12_Witness ==
    \E i \in Slots :
        /\ Responded(i)
        /\ IsCallOf(i, "calculate_mortgage_payment")
        /\ req[i].params.arguments =
              [annualInterestRate |-> Str(Hi), loanTermYears |-> Num(150)]
        /\ Lists(resp[i], "MissingArgument", "loanAmount")
        /\ Lists(resp[i], "InvalidArgumentType", "annualInterestRate")
        /\ Lists(resp[i], "InvalidArgumentType", "loanTermYears")

\* ---------------------------------------------- C13: undeclared arguments

\* The names a registered tool's schema declares.
Declared(name) ==
    LET schema == Lookup(registry, name)[1].schema
    IN {schema[j].name : j \in DOMAIN schema}

\* The supplied arguments that the tool's schema declares.
DeclaredPart(name, a) == [f \in DOMAIN a \cap Declared(name) |-> a[f]]

\* Two calls of one registered tool that differ at most in undeclared
\* arguments.
SameDeclaredArguments(i, j) ==
    /\ IsCall(i) /\ IsCall(j)
    /\ req[i].params.name = req[j].params.name
    /\ req[i].id = req[j].id
    /\ IsRegistered(req[i].params.name)
    /\ DeclaredPart(req[i].params.name, req[i].params.arguments)
         = DeclaredPart(req[j].params.name, req[j].params.arguments)

\* C13: two answered calls of a registered tool whose arguments differ only
\* in arguments the schema does not declare (and, for the population tool,
\* with the same provider answer) have the same validation outcome, hand the
\* handler the same values, none of them undeclared, and have the same
\* response, the timestamp of the result apart.
C13_UndeclaredArgumentsAreIgnored ==
    \A i, j \in Slots :
        (Responded(i) /\ Responded(j) /\ SameDeclaredArguments(i, j)
            /\ answer[i] = answer[j]) =>
            /\ IsError(resp[i]) <=> IsError(resp[j])
            /\ calls[i] = calls[j]
            /\ \A k \in DOMAIN calls[i] :
                  DOMAIN calls[i][k].args \subseteq Declared(req[i].params.name)
            /\ WithoutTimestamp(resp[i]) = WithoutTimestamp(resp[j])

\* An echo call and the same call with an undeclared argument added have
\* both been answered with a result.
C13_Witness ==
    \E i, j \in Slots :
        /\ Responded(i) /\ Responded(j)
        /\ req[i] = Call(3, "echo", [message |-> Str(Hi)])
        /\ req[j] = Call(3, "echo", [message |-> Str(Hi), verbose |-> Bool(TRUE)])
        /\ IsResult(resp[i]) /\ IsResult(resp[j])
        /\ calls[j] = << Invocation("echo", [message |-> Str(Hi)]) >>

\* --------------------------------------- C14: the provider's failed answers

\* The text of the one content block of a result.
TextOf(r) == r.content[1].text

\* C14: a population call that the provider answered with a non-2xx status,
\* or whose fetch failed, is answered with a result (nothing is raised past
\* the handler) that has success = false and a non-empty text block. For
\* status 404 the error is "Country not found" and the text is the guidance
\* naming the country; for every other non-2xx status the error is
\* "HTTP <status>: <statusText>", and for a failed fetch it is the fetch's
\* own error message.
C14_ProviderFailureIsAFailedResult ==
    \A i \in Slots :
        (Responded(i) /\ IsCallOf(i, "get_population_data")
            /\ answer[i] # NoAnswer
            /\ (answer[i].kind = "reject" \/ ~answer[i].ok)) =>
            LET ans == answer[i]
                r == resp[i].result
                country == Join(req[i].params.arguments.country.s)
            IN /\ IsResult(resp[i])
               /\ ~out[i].threw
               /\ FailurePayload(r)
               /\ ans.kind = "reject" => r.error = ans.message
               /\ (ans.kind = "http" /\ ans.status = 404) =>
                     /\ r.error = "Country not found"
                     /\ TextOf(r) = "Country \"" \o country \o "\" not found. Please check the spelling or try alternative names (e.g., 'USA' instead of 'United States', 'UK' instead of 'United Kingdom')."
               /\ (ans.kind = "http" /\ ans.status # 404) =>
                     /\ r.error = "HTTP " \o ToString(ans.status) \o ": " \o ans.statusText
                     /\ TextOf(r) = "Error fetching population data for \"" \o country \o "\": " \o r.error \o ". Please try again or verify the country name."

\* A population call that the provider answered with status 500 has been
\* answered with the error "HTTP 500: Internal Server Error".
C14_Witness ==
    \E i \in Slots :
        /\ Responded(i)
        /\ IsCallOf(i, "get_population_data")
        /\ answer[i] = Http(500, "Internal Server Error", NoJson)
        /\ resp[i].result.error = "HTTP 500: Internal Server Error"
        /\ ~resp[i].result.success

\* ------------------------------------------------ C15: the fetch's timeout

\* C15: every population call whose handler has started its fetch is
\* eventually answered, whether or not the provider ever answers the fetch.
C15_PopulationCallIsAnswered ==
    \A i \in Slots : (stage[i] = "Fetching") ~> Responded(i)

\* ------------------------------------- C16: one handler, once, and awaited

\* C16: for every request at most one handler invocation is made, and it is
\* of the tool the request names; a request that is not a tools/call has
\* none. At most one provider request is issued for a request, and only by a
\* population call. A call is answered only once its handler has completed
\* (for the population tool: once the provider's answer has arrived), and
\* the result sent is what that one invocation produced.
C16_OneHandlerOnceAndAwaited ==
    \A i \in Slots :
        /\ Len(calls[i]) <= 1
        /\ Len(fetches[i]) <= 1
        /\ calls[i] # << >> =>
              (IsCall(i) /\ calls[i][1].name = req[i].params.name)
        /\ fetches[i] # << >> =>
              (IsCallOf(i, "get_population_data") /\ calls[i] # << >>)
        /\ (Responded(i) /\ calls[i] # << >>) =>
              /\ out[i] # NoOutcome
              /\ fetches[i] # << >> => answer[i] # NoAnswer
              /\ resp[i] = ResultEnvelope(req[i].id, ToolResult(out[i]))

\* A population call whose fetch failed has been answered, after one
\* invocation and one provider request, while another call was answered too.
C16_Witness ==
    \E i, j \in Slots :
        /\ i # j
        /\ Responded(i) /\ IsCallOf(i, "get_population_data")
        /\ answer[i] = Reject("fetch failed")
        /\ Len(calls[i]) = 1 /\ Len(fetches[i]) = 1
        /\ Responded(j) /\ IsCall(j) /\ Len(calls[j]) = 1

\* ------------------------------------------- C17: the stages of a request

IsPrefix(p, q) == Len(p) <= Len(q) /\ \A k \in 1..Len(p) : p[k] = q[k]

\* The paths that enter every stage: Received, MethodResolved, one of the
\* three stages of work, Responded.
FullPaths ==
    { << "Received", "MethodResolved", work, "Responded" >> :
        work \in {"Initialized", "ToolsListed", "ToolInvoked"} }

StagesOf(i) ==
    IF "method" \notin DOMAIN req[i]
          \/ req[i].method \notin {"initialize", "tools/list", "tools/call"}
    THEN << "Received", "Responded" >>
    ELSE IF req[i].method = "initialize"
    THEN << "Received", "MethodResolved", "Initialized", "Responded" >>
    ELSE IF req[i].method = "tools/list"
    THEN << "Received", "MethodResolved", "ToolsListed", "Responded" >>
    ELSE IF ~IsRegistered(req[i].params.name) \/ BadCall(i)
    THEN << "Received", "MethodResolved", "Responded" >>
    ELSE << "Received", "MethodResolved", "ToolInvoked", "Responded" >>

C18_PositionsAndCount ==
    \A i \in Slots :
        (Responded(i) /\ IsCallOf(i, "count_letter_occurrences")
            /\ IsResult(resp[i])) =>
            LET text == req[i].params.arguments.text.s
                letter == req[i].params.arguments.letter.s
                r == resp[i].result
                positions == r.analysis.positions
                Matches(idx) == toLowerCase(text[idx + 1]) = toLowerCase(letter[1])
            IN /\ r.success = TRUE
               /\ \A k \in DOMAIN positions :
                     positions[k] \in 0..(Len(text) - 1) /\ Matches(positions[k])
               /\ \A idx \in 0..(Len(text) - 1) :
                     Matches(idx) => InSeq(positions, idx)
               /\ \A k \in 1..(Len(positions) - 1) : positions[k] < positions[k + 1]
               /\ r.analysis.totalCount = Len(positions)
               /\ (text = HelloWorld /\ letter \in {<< "l" >>, << "L" >>}) =>
                     (positions = << 2, 3, 9 >> /\ r.analysis.totalCount = 3)

\* The call with text "Hello World" and letter "L" has been answered with
\* positions 2, 3, 9 and count 3.
C18_Witness ==
    \E i \in Slots :
        /\ Responded(i)
        /\ req[i] = Call(5, "count_letter_occurrences",
                         [text |-> Str(HelloWorld), letter |-> Str(<< "L" >>)])
        /\ resp[i].result.analysis.positions = << 2, 3, 9 >>
        /\ resp[i].result.analysis.totalCount = 3

\* ------------------------------------------------- C19: the zero-rate case

IsHashCall(i) == IsCallOf(i, "calculate_sha1") \/ IsCallOf(i, "calculate_sha256")

FailedAt(k) ==
    \/ client.received[k].kind = "error"
    \/ client.received[k].kind = "body" /\ ~client.received[k].body.parses

\* The tool names in the parsed body of the tools/list response.
ListedNames ==
    IF /\ Len(client.received) >= 2
       /\ ~FailedAt(2)
       /\ HasTools(client.received[2].body.data)
    THEN Names(client.received[2].body.data.result.tools)
    ELSE {}

\* Requests go out as initialize, tools/list, then tool calls in the order
\* of the script; every request but the last has a response that was
\* received to its end and parsed, and at most the last one is outstanding.
C21_Sequential ==
    /\ Len(client.sent) - Len(client.received) = (IF client.waiting THEN 1 ELSE 0)
    /\ \A k \in DOMAIN client.sent :
          /\ k = 1 => client.sent[k] = InitializeTest
          /\ k = 2 => client.sent[k] = ListToolsTest
          /\ k > 2 => /\ client.sent[k].method = "tools/call"
                      /\ client.sent[k].id > client.sent[k - 1].id
                      /\ InSeq(Tests(client.script), client.sent[k])
          /\ k < Len(client.sent) => ~FailedAt(k)

\* A tool is called only if the tools/list result listed its name.
C21_OnlyListedToolsAreCalled ==
    \A k \in DOMAIN client.sent :
        k > 2 => client.sent[k].params.name \in ListedNames

\* A failed response is the last thing the run saw: it ended with exit code
\* 1 and the failed request is the last one sent.
C21_FailStop ==
    \A k \in DOMAIN client.received :
        FailedAt(k) => /\ ~client.running
                       /\ client.exitCode = 1
                       /\ k = Len(client.sent)

\* C21: the smoke-test client sends initialize, then tools/list, then each
\* tools/call, each request only after the previous response was received to
\* its end and parsed as JSON; it calls a tool only if the tools/list result
\* listed the tool's name; and a transport error or an unparseable body ends
\* the run with exit code 1, after which nothing more is sent.
C21_SequentialAndFailStop ==
    /\ [](C21_Sequential /\ C21_OnlyListedToolsAreCalled /\ C21_FailStop)
    /\ [][/\ client'.sent # client.sent =>
                /\ ~client.waiting
                /\ Len(client.received) = Len(client.sent)
                /\ client'.sent = Append(client.sent, client'.sent[Len(client'.sent)])
          /\ ~client.running => client' = client]_vars

\* The second script of part_000 against the snapshot with all six tools:
\* five requests went out, the last a call of a listed tool, and a request
\* error on it ended the run with exit code 1.
C21_Witness ==
    /\ client.script = "part_000_second"
    /\ Len(client.sent) = 5
    /\ client.sent[5] = LetterCountTest
    /\ Len(client.received) = 5
    /\ client.received[5] = RequestError
    /\ ~client.running
    /\ client.exitCode = 1

\* ------------------------------- C22: the mortgage handler's arguments

\* The invocations of the mortgage handler made for request i.
MortgageInvocations(i) ==
    {j \in DOMAIN calls[i] : calls[i][j].name = "calculate_mortgage_payment"}

\* C22: every invocation of the mortgage handler has number arguments with
\* loanAmount > 0, annualInterestRate >= 0 and loanTermYears a positive
\* integer, so loanTermYears * 12 is a positive multiple of 12 and the
\* divisor of the zero-rate branch is not zero; the numberOfPayments of the
\* result is that number.
C22_MortgageArgumentsAreValidated ==
    \A i \in Slots :
        \A j \in MortgageInvocations(i) :
            LET a == calls[i][j].args
                numberOfPayments == (a.loanTermYears.n \div 100) * 12
            IN /\ a.loanAmount.k = "number" /\ a.loanAmount.n > 0
               /\ a.annualInterestRate.k = "number" /\ a.annualInterestRate.n >= 0
               /\ a.loanTermYears.k = "number" /\ a.loanTermYears.n > 0
               /\ a.loanTermYears.n % 100 = 0
               /\ numberOfPayments > 0
               /\ numberOfPayments % 12 = 0
               /\ a.annualInterestRate.n = 0 => numberOfPayments # 0
               /\ (Responded(i) /\ IsResult(resp[i])) =>
                     /\ ~raised[i]
                     /\ resp[i].result.calculation.numberOfPayments
                            = numberOfPayments

\* The mortgage handler ran for a call with annualInterestRate 0 over 10
\* years, and the result has 120 payments.
C22_Witness ==
    \E i \in Slots :
        /\ Responded(i)
        /\ 1 \in MortgageInvocations(i)
        /\ calls[i][1].args.annualInterestRate = Num(0)
        /\ calls[i][1].args.loanTermYears = Num(1000)
        /\ resp[i].result.calculation.numberOfPayments = 120

\* --------------------------------------- C23: 2xx answers of the provider

\* Request i is an answered population call whose fetch got a 2xx response.
Answered2xx(i) ==
    /\ Responded(i)
    /\ IsCallOf(i, "get_population_data")
    /\ answer[i] # NoAnswer
    /\ answer[i].kind = "http"
    /\ answer[i].status \in 200..299

\* The body's data is an empty array, or undefined, null, 0, "" or false.
EmptyOrFalsyData(d) ==
    \/ d.t = "array" /\ d.items = << >>
    \/ d.t \in {"undefined", "null"}
    \/ d.t = "scalar" /\ ~d.truthy

\* The value has a population that is neither undefined nor null.
HasPopulationValue(v) ==
    /\ v.t = "object"
    /\ "population" \in DOMAIN v.o
    /\ ~("nulls" \in DOMAIN v.o /\ "population" \in v.o.nulls)

\* The data has a first match (the first element of a non-empty array, or
\* the data itself when it is not an array) that is not null and has no
\* population value.
FirstMatchLacksPopulation(d) ==
    \/ d.t = "array" /\ d.items # << >>
          /\ d.items[1].t \in {"object", "scalar"}
          /\ ~(d.items[1].t = "scalar" /\ ~d.items[1].truthy)
          /\ ~HasPopulationValue(d.items[1])
    \/ d.t = "object" /\ ~HasPopulationValue(d)
    \/ d.t = "scalar" /\ d.truthy

\* The data has a first match with a population value.
FirstMatchHasPopulation(d) ==
    \/ d.t = "array" /\ d.items # << >> /\ HasPopulationValue(d.items[1])
    \/ d.t = "object" /\ HasPopulationValue(d)

\* C23: a population call whose fetch got a 2xx response is answered with a
\* result that has a success field, and nothing is raised past the handler.
\* A body that is not JSON, or a first match without a population value,
\* gives success = false with the message of the error that was caught; an
\* empty array or a falsy body value gives success = false with the error
\* "No data found"; success = true is given only when the first match has a
\* population value.
C23_EveryOkAnswerIsAResult ==
    \A i \in Slots :
        Answered2xx(i) =>
            LET body == answer[i].body
                r == resp[i].result
                country == Join(req[i].params.arguments.country.s)
            IN /\ IsResult(resp[i])
               /\ ~out[i].threw
               /\ "success" \in DOMAIN r
               /\ HasNonEmptyText(r)
               /\ ~body.parses =>
                     /\ raised[i]
                     /\ ~r.success
                     /\ r.error = "Unexpected token < in JSON at position 0"
                     /\ TextOf(r) = "Error fetching population data for \"" \o country \o "\": " \o r.error \o ". Please try again or verify the country name."
               /\ (body.parses /\ FirstMatchLacksPopulation(body.data)) =>
                     /\ raised[i]
                     /\ ~r.success
                     /\ r.error \in
                          {"Cannot read properties of undefined (reading 'toLocaleString')",
                           "Cannot read properties of null (reading 'toLocaleString')"}
                     /\ TextOf(r) = "Error fetching population data for \"" \o country \o "\": " \o r.error \o ". Please try again or verify the country name."
               /\ (body.parses /\ EmptyOrFalsyData(body.data)) =>
                     /\ ~raised[i]
                     /\ ~r.success
                     /\ r.error = "No data found"
               /\ r.success =>
                     /\ body.parses
                     /\ FirstMatchHasPopulation(body.data)
                     /\ ~raised[i]

\* A population call whose fetch got 200 with an empty array has been
\* answered with the error "No data found".
C23_Witness ==
    \E i \in Slots :
        /\ Answered2xx(i)
        /\ answer[i] = Http(200, "OK", Json(JArray(<< >>)))
        /\ ~resp[i].result.success
        /\ resp[i].result.error = "No data found"

=============================================================================
